---------------------------- MODULE Spec2Model ----------------------------
(***************************************************************************)
(* A model of the two developer quality-gate scripts of sol-trade-sdk:     *)
(*   scripts/run_rust_tests.py       the cargo-test wrapper                *)
(*   scripts/check_error_tolerance.py the error-tolerance auditor          *)
(* Python str values are TLA+ strings; characters are one-character        *)
(* strings, positions are 1-based.                                         *)
(***************************************************************************)
EXTENDS Integers, Sequences, FiniteSets, TLC

VARIABLES
    pc,          \* position of the running script or call ("start", ..., "exit")
    argv,        \* the run's command line, or the arguments of a call
    ret,         \* the value a called function returned
    proc,        \* run_command's view of the harness: [exit_code, stdout, stderr, timed_out]
    results,     \* List[TestResult] of the wrapper
    fs,          \* the scanned tree: [exists, files], files in rglob order
    catalog,     \* the rule names whose "pattern" string is not a valid regex
    idx,         \* the auditor's position in rust_files
    all_issues,  \* List[Issue] of the auditor
    report,      \* the rendered report (a sequence of rendered blocks)
    exit_status  \* <<>> while the process runs, <<code>> once it has ended

vars == <<pc, argv, ret, proc, results, fs, catalog, idx, all_issues, report, exit_status>>

(***************************************************************************)
(* Python str primitives.                                                  *)
(***************************************************************************)
CharAt(s, p) == SubSeq(s, p, p)

CharsOf(s) == { CharAt(s, p) : p \in 1..Len(s) }

LowerLetters == "abcdefghijklmnopqrstuvwxyz"

UpperLetters == "ABCDEFGHIJKLMNOPQRSTUVWXYZ"

Digits == "0123456789"

\* str.isspace() characters that a TLA+ string can spell
WhiteSpace == {" ", "\t", "\n", "\r", "\f"}

\* the characters \w matches, among those the model's texts use
WordChars == CharsOf(LowerLetters) \cup CharsOf(UpperLetters) \cup CharsOf(Digits) \cup {"_"}

\* str.lower() of one character
LowerChar(c) ==
    IF \E p \in 1..Len(UpperLetters) : CharAt(UpperLetters, p) = c
    THEN LET p == CHOOSE q \in 1..Len(UpperLetters) : CharAt(UpperLetters, q) = c
         IN  CharAt(LowerLetters, p)
    ELSE c

RECURSIVE Lower(_)
\* str.lower()
Lower(s) == IF s = "" THEN "" ELSE LowerChar(CharAt(s, 1)) \o Lower(SubSeq(s, 2, Len(s)))

\* needle in haystack
Contains(haystack, needle) ==
    \E p \in 1..(Len(haystack) - Len(needle) + 1) :
        SubSeq(haystack, p, p + Len(needle) - 1) = needle

\* s.startswith(prefix)
StartsWith(s, prefix) ==
    Len(prefix) <= Len(s) /\ SubSeq(s, 1, Len(prefix)) = prefix

\* s[:n]
Prefix(s, n) == IF Len(s) <= n THEN s ELSE SubSeq(s, 1, n)

RECURSIVE LStrip(_)
LStrip(s) ==
    IF s # "" /\ CharAt(s, 1) \in WhiteSpace THEN LStrip(SubSeq(s, 2, Len(s))) ELSE s

RECURSIVE RStrip(_)
RStrip(s) ==
    IF s # "" /\ CharAt(s, Len(s)) \in WhiteSpace THEN RStrip(SubSeq(s, 1, Len(s) - 1)) ELSE s

\* str.strip()
Strip(s) == RStrip(LStrip(s))

RECURSIVE SplitFrom(_, _, _, _)
\* str.split(sep) for a one-character sep, from position p on
SplitFrom(s, sep, start, p) ==
    IF p > Len(s) THEN << SubSeq(s, start, Len(s)) >>
    ELSE IF CharAt(s, p) = sep
         THEN << SubSeq(s, start, p - 1) >> \o SplitFrom(s, sep, p + 1, p + 1)
         ELSE SplitFrom(s, sep, start, p + 1)

\* str.split('\n')
SplitLines(s) == SplitFrom(s, "\n", 1, 1)

\* the code points of the characters paths are made of, in ascending order
PathCharOrder == "./0123456789_abcdefghijklmnopqrstuvwxyz"

Ord(c) == CHOOSE p \in 1..Len(PathCharOrder) : CharAt(PathCharOrder, p) = c

RECURSIVE StrLess(_, _)
\* a < b for two str
StrLess(a, b) ==
    IF b = "" THEN FALSE
    ELSE IF a = "" THEN TRUE
    ELSE IF CharAt(a, 1) = CharAt(b, 1)
         THEN StrLess(SubSeq(a, 2, Len(a)), SubSeq(b, 2, Len(b)))
         ELSE Ord(CharAt(a, 1)) < Ord(CharAt(b, 1))

(***************************************************************************)
(* The re module, for the constructs the two scripts' patterns use.  A     *)
(* pattern is a tree; Ends(r, s, p) is the set of positions at which a     *)
(* match of r that starts at position p of s can end, which decides        *)
(* re.search and re.match for patterns without back-references.            *)
(***************************************************************************)
\* an absent upper bound of a repetition
Inf == 0 - 1

Lit(str) == [t |-> "lit", str |-> str]

Cls(set) == [t |-> "cls", set |-> set, neg |-> FALSE]

NotCls(set) == [t |-> "cls", set |-> set, neg |-> TRUE]

Seq_(rs) == [t |-> "seq", rs |-> rs]

Alt(rs) == [t |-> "alt", rs |-> rs]

Rep(r, min, max) == [t |-> "rep", r |-> r, min |-> min, max |-> max]

NotAhead(r) == [t |-> "nla", r |-> r]

WordBoundary == [t |-> "wb"]

Bol == [t |-> "bol"]

Eol == [t |-> "eol"]

\* .  \s  \w
AnyChar == NotCls({"\n"})

Space == Cls(WhiteSpace)

Word == Cls(WordChars)

IsWordAt(s, p) == p >= 1 /\ p <= Len(s) /\ CharAt(s, p) \in WordChars

RECURSIVE Ends(_, _, _)
RECURSIVE SeqEnds(_, _, _, _)
RECURSIVE RepEnds(_, _, _, _, _)
Ends(r, s, p) ==
    CASE r.t = "lit" ->
            IF p + Len(r.str) - 1 <= Len(s) /\ SubSeq(s, p, p + Len(r.str) - 1) = r.str
            THEN {p + Len(r.str)} ELSE {}
      [] r.t = "cls" ->
            IF p <= Len(s) /\ ((CharAt(s, p) \in r.set) # r.neg) THEN {p + 1} ELSE {}
      [] r.t = "seq" -> SeqEnds(r.rs, 1, s, {p})
      [] r.t = "alt" -> UNION { Ends(r.rs[k], s, p) : k \in 1..Len(r.rs) }
      [] r.t = "rep" -> RepEnds(r.r, s, p, r.min, r.max)
      [] r.t = "nla" -> IF Ends(r.r, s, p) = {} THEN {p} ELSE {}
      [] r.t = "wb"  -> IF IsWordAt(s, p - 1) # IsWordAt(s, p) THEN {p} ELSE {}
      [] r.t = "bol" -> IF p = 1 THEN {p} ELSE {}
      [] r.t = "eol" ->
            IF p = Len(s) + 1 \/ (p = Len(s) /\ CharAt(s, p) = "\n") THEN {p} ELSE {}

SeqEnds(rs, k, s, P) ==
    IF k > Len(rs) THEN P
    ELSE SeqEnds(rs, k + 1, s, UNION { Ends(rs[k], s, p) : p \in P })

RepEnds(r, s, p, min, max) ==
    LET one  == Ends(r, s, p) \ {p}
        less == IF min > 0 THEN min - 1 ELSE 0
        left == IF max = Inf THEN Inf ELSE max - 1
    IN  (IF min = 0 THEN {p} ELSE {})
        \cup (IF max = 0 THEN {}
              ELSE UNION { RepEnds(r, s, q, less, left) : q \in one })

\* re.search(r, s) is not None
Search(r, s) == \E p \in 1..(Len(s) + 1) : Ends(r, s, p) # {}

SetMax(S) == CHOOSE m \in S : \A n \in S : n <= m

SetMin(S) == CHOOSE m \in S : \A n \in S : m <= n

(***************************************************************************)
(* run_rust_tests.py                                                       *)
(***************************************************************************)
TestStatus == {"PASSED", "FAILED", "IGNORED", "TIMEOUT"}

TestResult(test_name, status, error_message, error_type, suggestion, fixable) ==
    [test_name |-> test_name, status |-> status, duration |-> 0,
     error_message |-> error_message, error_type |-> error_type,
     suggestion |-> suggestion, fixable |-> fixable]

\* (?:\s+(.+))?$
TailPattern ==
    Seq_(<< Rep(Seq_(<< Rep(Space, 1, Inf), Rep(AnyChar, 1, Inf) >>), 0, 1), Eol >>)

\* \.\.\.(\w+)(?:\s+(.+))?$
DotsPattern == Seq_(<< Lit("..."), Rep(Word, 1, Inf), TailPattern >>)

\* \s+\.\.\.(\w+)(?:\s+(.+))?$
AfterNamePattern == Seq_(<< Rep(Space, 1, Inf), DotsPattern >>)

NoMatch == [matched |-> FALSE]

\* test_pattern.match(s): r'^test\s+(.+?)\s+\.\.\.(\w+)(?:\s+(.+))?$', with the
\* groups the backtracking order gives: \s+ greedy, (.+?) lazy, \s+ greedy,
\* (\w+) greedy, the optional tail taken when it can be.
TestPatternMatch(s) ==
    LET NameEnds(a) == { b \in Ends(Rep(AnyChar, 1, Inf), s, a) :
                            Ends(AfterNamePattern, s, b) # {} }
        A == IF StartsWith(s, "test")
             THEN { a \in Ends(Rep(Space, 1, Inf), s, 5) : NameEnds(a) # {} }
             ELSE {}
    IN  IF A = {} THEN NoMatch
        ELSE LET a == SetMax(A)
                 b == SetMin(NameEnds(a))
                 c == SetMax({ q \in Ends(Rep(Space, 1, Inf), s, b) :
                                   Ends(DotsPattern, s, q) # {} })
                 d == SetMax({ q \in Ends(Rep(Word, 1, Inf), s, c + 3) :
                                   Ends(TailPattern, s, q) # {} })
                 RestEnds(e) == { q \in Ends(Rep(AnyChar, 1, Inf), s, e) :
                                     Ends(Eol, s, q) # {} }
                 E == { e \in Ends(Rep(Space, 1, Inf), s, d) : RestEnds(e) # {} }
             IN  [matched |-> TRUE,
                  group1  |-> SubSeq(s, a, b - 1),
                  group2  |-> SubSeq(s, c + 3, d - 1),
                  \* match.group(3) or ""
                  rest    |-> IF E = {} THEN ""
                              ELSE SubSeq(s, SetMax(E), SetMax(RestEnds(SetMax(E)) ) - 1)]

\* the status chain of parse_test_output
StatusOf(status_str) ==
    IF status_str = "ok" THEN "PASSED"
    ELSE IF status_str = "FAILED" THEN "FAILED"
    ELSE IF status_str \in {"ignored", "should panic"} THEN "IGNORED"
    ELSE "FAILED"

\* the body of parse_test_output's loop for one line: the results it appends
ParseLine(line) ==
    LET m == TestPatternMatch(Strip(line))
    IN  IF m.matched
        THEN << TestResult(m.group1, StatusOf(m.group2),
                           IF StatusOf(m.group2) = "FAILED" THEN m.rest ELSE "",
                           "", "", FALSE) >>
        ELSE << >>

RECURSIVE ParseLines(_, _)
ParseLines(lines, k) ==
    IF k > Len(lines) THEN << >> ELSE ParseLine(lines[k]) \o ParseLines(lines, k + 1)

parse_test_output(output) == ParseLines(SplitLines(output), 1)

\* analyze_failure's patterns dict, in insertion order.  "type" and "suggestion"
\* are Chinese texts in the source; they are spelled here in English:
\*   断言失败 assertion failure, Panic, 算术溢出 arithmetic overflow,
\*   借用检查错误 borrow check error, 类型不匹配 type mismatch,
\*   文件不存在 file not found, 连接失败 connection failure, 测试超时 test timeout
patterns ==
    << [pattern |-> "assertion failed", type |-> "assertion failure",
        suggestion |-> "check the assertion condition", fixable |-> FALSE],
       [pattern |-> "panicked at", type |-> "Panic",
        suggestion |-> "the code panicked, check for invalid data or panic!", fixable |-> FALSE],
       [pattern |-> "attempt to add with overflow", type |-> "arithmetic overflow",
        suggestion |-> "use checked_add, wrapping_add or saturating_add", fixable |-> TRUE],
       [pattern |-> "borrow checker", type |-> "borrow check error",
        suggestion |-> "check ownership and lifetimes", fixable |-> FALSE],
       [pattern |-> "type mismatch", type |-> "type mismatch",
        suggestion |-> "check the type annotations", fixable |-> TRUE],
       [pattern |-> "no such file or directory", type |-> "file not found",
        suggestion |-> "make sure the files the test needs exist", fixable |-> TRUE],
       [pattern |-> "connection refused", type |-> "connection failure",
        suggestion |-> "make sure the services the test needs run, or mock them", fixable |-> FALSE],
       [pattern |-> "timeout", type |-> "test timeout",
        suggestion |-> "speed the test up or raise the timeout", fixable |-> FALSE] >>

\* the values analyze_failure starts from: 未知错误 (unknown error)
UnknownAnalysis ==
    [error_type |-> "unknown error",
     suggestion |-> "check the test code and the implementation", fixable |-> FALSE]

\* `pattern.lower() in stderr.lower()`
SignatureIn(pattern, stderr) == Contains(Lower(stderr), Lower(pattern))

RECURSIVE AnalyzeFrom(_, _)
\* analyze_failure's loop from the k-th entry on: the first hit breaks
AnalyzeFrom(stderr, k) ==
    IF k > Len(patterns) THEN UnknownAnalysis
    ELSE IF SignatureIn(patterns[k].pattern, stderr)
         THEN [error_type |-> patterns[k].type,
               suggestion |-> patterns[k].suggestion,
               fixable    |-> patterns[k].fixable]
         ELSE AnalyzeFrom(stderr, k + 1)

RECURSIVE AnalyzeNoBreak(_, _, _)
\* the loop without its break: the last hit stays
AnalyzeNoBreak(stderr, k, found) ==
    IF k > Len(patterns) THEN found
    ELSE AnalyzeNoBreak(stderr, k + 1,
            IF SignatureIn(patterns[k].pattern, stderr)
            THEN [error_type |-> patterns[k].type,
                  suggestion |-> patterns[k].suggestion,
                  fixable    |-> patterns[k].fixable]
            ELSE found)

analyze_failure_no_break(stderr, test_name) == AnalyzeNoBreak(stderr, 1, UnknownAnalysis)

analyze_failure(stderr, test_name) == AnalyzeFrom(stderr, 1)

\* run_command's three returns
Completed(returncode, stdout, stderr) ==
    [exit_code |-> returncode, stdout |-> stdout, stderr |-> stderr, timed_out |-> FALSE]

TimedOut ==
    [exit_code |-> 0 - 1, stdout |-> "", stderr |-> "Command timed out after 300 seconds",
     timed_out |-> TRUE]

SpawnFailed(message) ==
    [exit_code |-> 0 - 1, stdout |-> "", stderr |-> message, timed_out |-> FALSE]

\* run_single_test, after run_command has returned r
run_single_test(test_name, r) ==
    IF r.exit_code = 0
    THEN TestResult(test_name, "PASSED", "", "", "", FALSE)
    ELSE LET analysis == analyze_failure(r.stderr, test_name)
         IN  TestResult(test_name, "FAILED", Prefix(r.stderr, 500),
                        analysis.error_type, analysis.suggestion, analysis.fixable)

RECURSIVE SelectStatus(_, _)
\* [r for r in rs if r.status == status]
SelectStatus(rs, status) ==
    IF rs = << >> THEN << >>
    ELSE (IF Head(rs).status = status THEN << Head(rs) >> ELSE << >>)
         \o SelectStatus(Tail(rs), status)

\* the first `passed[:10]` names are listed
PassedShown == 10

\* format_test_report: the counts, the failed tests and the listed passed tests
format_test_report(rs) ==
    LET passed  == SelectStatus(rs, "PASSED")
        failed  == SelectStatus(rs, "FAILED")
        ignored == SelectStatus(rs, "IGNORED")
    IN  [total |-> Len(rs), passed |-> Len(passed), failed |-> Len(failed),
         ignored |-> Len(ignored),
         failed_tests |-> failed,
         passed_names |-> [k \in 1..(IF Len(passed) < PassedShown THEN Len(passed)
                                     ELSE PassedShown) |-> passed[k].test_name],
         more |-> IF Len(passed) > PassedShown THEN Len(passed) - PassedShown ELSE 0]

(***************************************************************************)
(* The wrapper's run: main() of run_rust_tests.py.  What cargo prints and  *)
(* how it ends is the environment's choice.                                *)
(***************************************************************************)
MaxLines == 2

\* lines a captured stdout is made of
ResultLines ==
    { "test suite::case1 ... ok", "test mod::case ... FAILED", "test mod::skip ... ignored",
      "test a ...ok", "test b ...FAILED boom", "test c ...ignored", "test d ...weird",
      "  test e ...ok  ", "running 3 tests", "" }

RECURSIVE Texts(_, _, _)
\* the texts of 1..n parts from `parts`, joined by `sep`
Texts(parts, sep, n) ==
    IF n <= 1 THEN parts
    ELSE Texts(parts, sep, n - 1)
         \cup { t \o sep \o l : t \in Texts(parts, sep, n - 1), l \in parts }

StdoutTexts == Texts(ResultLines, "\n", MaxLines)

StderrTexts ==
    { "", "thread 'main' panicked at src/lib.rs:7:5:\nattempt to add with overflow",
      "error: could not compile sol-trade-sdk", "assertion failed: left == right" }

\* process exit codes of cargo test: success, test failure
ReturnCodes == {0, 101}

SpawnErrors == { "[Errno 2] No such file or directory: 'cargo'" }

NotRun == [exit_code |-> 0, stdout |-> "", stderr |-> "", timed_out |-> FALSE]

NoFs == [exists |-> FALSE, files |-> << >>]

\* the variables of the other script, which a run of this one leaves alone
WrapperIdle == fs = NoFs /\ catalog = {} /\ idx = 0 /\ all_issues = << >>

InitWrapper ==
    /\ pc = "start"
    /\ argv \in [test_name : {"", "test_login"}, cargo_toml : BOOLEAN]
    /\ ret = << >>
    /\ proc = NotRun
    /\ results = << >>
    /\ report = << >>
    /\ exit_status = << >>
    /\ WrapperIdle

\* main, lines 315-324: walk up to a Cargo.toml, exit 1 when there is none
FindWorkspace ==
    /\ pc = "start"
    /\ IF argv.cargo_toml
       THEN pc' = "run" /\ exit_status' = exit_status
       ELSE pc' = "exit" /\ exit_status' = << 1 >>
    /\ UNCHANGED <<argv, ret, proc, results, fs, catalog, idx, all_issues, report>>

\* run_command: subprocess.run returns
RunCompleted ==
    /\ pc = "run"
    /\ \E rc \in ReturnCodes, out \in StdoutTexts, err \in StderrTexts :
          proc' = Completed(rc, out, err)
    /\ pc' = "ran"
    /\ UNCHANGED <<argv, ret, results, fs, catalog, idx, all_issues, report, exit_status>>

\* run_command: subprocess.TimeoutExpired
RunTimedOut ==
    /\ pc = "run"
    /\ proc' = TimedOut
    /\ pc' = "ran"
    /\ UNCHANGED <<argv, ret, results, fs, catalog, idx, all_issues, report, exit_status>>

\* run_command: any other exception of subprocess.run
RunSpawnFailed ==
    /\ pc = "run"
    /\ \E message \in SpawnErrors : proc' = SpawnFailed(message)
    /\ pc' = "ran"
    /\ UNCHANGED <<argv, ret, results, fs, catalog, idx, all_issues, report, exit_status>>

\* main with a test name: run_single_test, the report, sys.exit(1) on FAILED
SingleTest ==
    /\ pc = "ran"
    /\ argv.test_name # ""
    /\ LET result == run_single_test(argv.test_name, proc)
       IN  /\ results' = << result >>
           /\ report' = format_test_report(<< result >>)
           /\ exit_status' = IF result.status = "FAILED" THEN << 1 >> ELSE << 0 >>
    /\ pc' = "exit"
    /\ UNCHANGED <<argv, ret, proc, fs, catalog, idx, all_issues>>

\* main without a test name: parse stdout, the report, sys.exit(1) on exit_code != 0
BatchTest ==
    /\ pc = "ran"
    /\ argv.test_name = ""
    /\ results' = parse_test_output(proc.stdout)
    /\ report' = format_test_report(results')
    /\ exit_status' = IF proc.exit_code # 0 THEN << 1 >> ELSE << 0 >>
    /\ pc' = "exit"
    /\ UNCHANGED <<argv, ret, proc, fs, catalog, idx, all_issues>>

NextWrapper ==
    \/ FindWorkspace
    \/ RunCompleted
    \/ RunTimedOut
    \/ RunSpawnFailed
    \/ SingleTest
    \/ BatchTest

SpecWrapper == InitWrapper /\ [][NextWrapper]_vars

HasStatus(rs, statuses) == \E k \in 1..Len(rs) : rs[k].status \in statuses

\* C1: whenever the wrapper has ended after invoking the harness, its exit status
\* is non-zero if the harness exit code was non-zero or some reported Outcome is
\* Failed or Timeout, in single-test mode and in batch mode.
C1_ExitReflectsFailures ==
    (pc = "exit" /\ argv.cargo_toml)
        => ((proc.exit_code # 0 \/ HasStatus(results, {"FAILED", "TIMEOUT"}))
                => exit_status # << 0 >>)

\* C2: a harness invocation that exceeded the timeout ends with an Outcome of
\* status Timeout for it and a non-zero exit status of the wrapper.
C2_TimeoutOutcome ==
    (pc = "exit" /\ proc.timed_out)
        => /\ HasStatus(results, {"TIMEOUT"})
           /\ ~ HasStatus(results, {"FAILED", "PASSED", "IGNORED"})
           /\ exit_status \notin { << >>, << 0 >> }

(***************************************************************************)
(* parse_test_output as a function of any captured output.                 *)
(***************************************************************************)
InitParse ==
    /\ pc = "call"
    /\ argv \in [output : StdoutTexts]
    /\ ret = << >>
    /\ proc = NotRun
    /\ results = << >>
    /\ report = << >>
    /\ exit_status = << >>
    /\ WrapperIdle

ParseCall ==
    /\ pc = "call"
    /\ ret' = parse_test_output(argv.output)
    /\ pc' = "return"
    /\ UNCHANGED <<argv, proc, results, fs, catalog, idx, all_issues, report, exit_status>>

NextParse == ParseCall

SpecParse == InitParse /\ [][NextParse]_vars

\* the result-line grammar of the claim: 'test <name> ... <status>'
GrammarNames == {"suite::case1", "mod::case", "mod::skip", "a", "b", "c", "d", "e"}

GrammarTokens == {"ok", "FAILED", "ignored", "weird"}

GrammarStatus(token) ==
    CASE token = "ok" -> "PASSED"
      [] token = "FAILED" -> "FAILED"
      [] token = "ignored" -> "IGNORED"
      [] OTHER -> "FAILED"

GrammarLine(line, name, token) == line = "test " \o name \o " ... " \o token

WellFormed(line) == \E name \in GrammarNames, token \in GrammarTokens : GrammarLine(line, name, token)

RECURSIVE GrammarOutcomes(_)
\* what the grammar makes of a sequence of lines: one <<name, status>> per
\* well-formed line, in line order
GrammarOutcomes(lines) ==
    IF lines = << >> THEN << >>
    ELSE (IF WellFormed(Head(lines))
          THEN LET nt == CHOOSE nt \in GrammarNames \X GrammarTokens :
                             GrammarLine(Head(lines), nt[1], nt[2])
               IN  << << nt[1], GrammarStatus(nt[2]) >> >>
          ELSE << >>)
         \o GrammarOutcomes(Tail(lines))

NameAndStatus(rs) == [k \in 1..Len(rs) |-> << rs[k].test_name, rs[k].status >>]

\* C3: parse_test_output returns, in line order, exactly one Outcome (name, mapped
\* status) per well-formed line 'test <name> ... <status>' and none for any other line.
C3_ParsesWellFormedLines ==
    pc = "return" => NameAndStatus(ret) = GrammarOutcomes(SplitLines(argv.output))

(***************************************************************************)
(* analyze_failure as a function of any stderr text.                       *)
(***************************************************************************)
MaxChunks == 2

\* pieces a captured stderr is made of
StderrChunks ==
    { "thread 'main' panicked at src/lib.rs:7:5:", "attempt to add with overflow",
      "ATTEMPT TO ADD WITH OVERFLOW", "assertion failed: left == right",
      "error[E0308]: Type Mismatch", "Connection refused (os error 111)",
      "test timeout", "No such file or directory (os error 2)",
      "the Borrow Checker rejects this", "process didn't exit successfully", "" }

InitClassify ==
    /\ pc = "call"
    /\ argv \in [stderr : Texts(StderrChunks, "\n", MaxChunks), test_name : {"test_login"}]
    /\ ret = << >>
    /\ proc = NotRun
    /\ results = << >>
    /\ report = << >>
    /\ exit_status = << >>
    /\ WrapperIdle

AnalyzeCall ==
    /\ pc = "call"
    /\ ret' = analyze_failure(argv.stderr, argv.test_name)
    /\ pc' = "return"
    /\ UNCHANGED <<argv, proc, results, fs, catalog, idx, all_issues, report, exit_status>>

NextClassify == AnalyzeCall

SpecClassify == InitClassify /\ [][NextClassify]_vars

\* the signature occurs somewhere in the text, letter case aside
Occurs(signature, text) ==
    \E p \in 1..(Len(text) - Len(signature) + 1) :
        \A k \in 1..Len(signature) :
            LowerChar(CharAt(text, p + k - 1)) = LowerChar(CharAt(signature, k))

Occurring(text) == { k \in 1..Len(patterns) : Occurs(patterns[k].pattern, text) }

DiagnosisOf(k) ==
    [error_type |-> patterns[k].type, suggestion |-> patterns[k].suggestion,
     fixable |-> patterns[k].fixable]

\* C5: analyze_failure returns one Diagnosis: that of the earliest-declared
\* signature occurring in the text (case-insensitively), whatever later signatures
\* occur too, and the unknown Diagnosis with fixable = FALSE when none occurs.
C5_FirstSignatureWins ==
    pc = "return" =>
        LET M == Occurring(argv.stderr)
        IN  IF M = {}
            THEN ret.error_type = "unknown error" /\ ret.fixable = FALSE
            ELSE \E k \in M : (\A j \in M : k <= j) /\ ret = DiagnosisOf(k)

\* a text in which two signatures occur has been classified as the earlier one
C5_Witness ==
    /\ pc = "return"
    /\ \E j, k \in Occurring(argv.stderr) : j < k /\ ret = DiagnosisOf(j) /\ ret # DiagnosisOf(k)

\* C6: every text containing 'attempt to add with overflow' is classified as
\* arithmetic overflow, fixable.
C6_OverflowAlwaysClassified ==
    (pc = "return" /\ Contains(argv.stderr, "attempt to add with overflow"))
        => (ret.error_type = "arithmetic overflow" /\ ret.fixable = TRUE)

(***************************************************************************)
(* check_error_tolerance.py                                                *)
(***************************************************************************)
Severity == {"HIGH", "MEDIUM", "LOW"}

\* the two characters of the Chinese word for "test" (U+6D4B U+8BD5), which a
\* TLA+ string cannot spell; no text of the model contains them
CjkTest == "<U+6D4B><U+8BD5>"

LowerOrUnderscore == Cls(CharsOf(LowerLetters) \cup {"_"})

\* CHECK_PATTERNS, in insertion order.  "pattern" is the tree of the regular
\* expression quoted beside it; category, risk and suggestion are Chinese texts in
\* the source, spelled here in English; "example" keeps the example's bad line.
CHECK_PATTERNS ==
    << [name |-> "unwrap()",
        \* \bunwrap\(\)(?!\s*//.*<CjkTest>|test)
        pattern |-> Seq_(<< WordBoundary, Lit("unwrap()"),
                            NotAhead(Alt(<< Seq_(<< Rep(Space, 0, Inf), Lit("//"),
                                                    Rep(AnyChar, 0, Inf), Lit(CjkTest) >>),
                                            Lit("test") >>)) >>),
        severity |-> "HIGH", category |-> "overuse of unwrap()",
        risk |-> "panics in production", suggestion |-> "propagate the error with ?",
        example |-> "let user_id = get_user_id().unwrap();"],
       [name |-> "unwrap_or_default",
        \* \.unwrap_or_default\(\)
        pattern |-> Lit(".unwrap_or_default()"),
        severity |-> "HIGH", category |-> "improper unwrap_or_default()",
        risk |-> "may mask a real error", suggestion |-> "handle the error explicitly",
        example |-> "let balance = query_balance(user_id).unwrap_or_default();"],
       [name |-> "unwrap_or",
        \* \.unwrap_or\([^)]+\)
        pattern |-> Seq_(<< Lit(".unwrap_or("), Rep(NotCls({")"}), 1, Inf), Lit(")") >>),
        severity |-> "HIGH", category |-> "improper unwrap_or()",
        risk |-> "errors masked as a default value", suggestion |-> "propagate a Result",
        example |-> "let price = fetch_price().unwrap_or(old_price);"],
       [name |-> "let _ =",
        \* let\s+_\s*=\s*[a-z_]+\(.*\)[;$]
        pattern |-> Seq_(<< Lit("let"), Rep(Space, 1, Inf), Lit("_"), Rep(Space, 0, Inf),
                            Lit("="), Rep(Space, 0, Inf), Rep(LowerOrUnderscore, 1, Inf),
                            Lit("("), Rep(AnyChar, 0, Inf), Lit(")"), Cls({";", "$"}) >>),
        severity |-> "HIGH", category |-> "let _ = ignores a must_use value",
        risk |-> "an important return value is ignored", suggestion |-> "handle the value",
        example |-> "let _ = tx.commit();"],
       [name |-> "assert!",
        \* assert!\([^,)]+(,[^)]+)?\)
        pattern |-> Seq_(<< Lit("assert!("), Rep(NotCls({",", ")"}), 1, Inf),
                            Rep(Seq_(<< Lit(","), Rep(NotCls({")"}), 1, Inf) >>), 0, 1),
                            Lit(")") >>),
        severity |-> "HIGH", category |-> "assert! in production code",
        risk |-> "compiled out in release mode", suggestion |-> "check with if and return an error",
        example |-> "assert!(amount > 0, \"Amount must be positive\");"],
       [name |-> "expect_short",
        \* \.expect\("[^"]{0,20}"\)
        pattern |-> Seq_(<< Lit(".expect(\""), Rep(NotCls({"\""}), 0, 20), Lit("\")") >>),
        severity |-> "MEDIUM", category |-> "expect() without a useful message",
        risk |-> "no context when it panics", suggestion |-> "include enough context",
        example |-> "let config = load_config().expect(\"failed\");"],
       [name |-> "panic_short",
        \* panic!\("[^"]{0,30}"\)
        pattern |-> Seq_(<< Lit("panic!(\""), Rep(NotCls({"\""}), 0, 30), Lit("\")") >>),
        severity |-> "MEDIUM", category |-> "improper panic!",
        risk |-> "incomplete panic message", suggestion |-> "include debugging information",
        example |-> "panic!(\"Invalid state\");"],
       [name |-> "ok()",
        \* \.ok\(\)\s*;
        pattern |-> Seq_(<< Lit(".ok()"), Rep(Space, 0, Inf), Lit(";") >>),
        severity |-> "MEDIUM", category |-> "ok() silently ignores the error",
        risk |-> "the error is dropped silently", suggestion |-> "log it at least",
        example |-> "let result = some_operation().ok();"],
       [name |-> "parse().unwrap",
        \* \.parse\(\)\.unwrap\(\)
        pattern |-> Lit(".parse().unwrap()"),
        severity |-> "MEDIUM", category |-> "parse().unwrap()",
        risk |-> "a parse failure panics", suggestion |-> "handle the parse error",
        example |-> "let port: u16 = env::var(\"PORT\").unwrap().parse().unwrap();"],
       [name |-> "direct_index",
        \* [a-z_]+\[[0-9]+\](?!\s*=)
        pattern |-> Seq_(<< Rep(LowerOrUnderscore, 1, Inf), Lit("["),
                            Rep(Cls(CharsOf(Digits)), 1, Inf), Lit("]"),
                            NotAhead(Seq_(<< Rep(Space, 0, Inf), Lit("=") >>)) >>),
        severity |-> "MEDIUM", category |-> "unchecked array/Vec access",
        risk |-> "an out-of-bounds access panics", suggestion |-> "use .get(), .first(), .last()",
        example |-> "let item = items[0];"],
       [name |-> "todo!",
        \* (todo|unimplemented)!\(
        pattern |-> Seq_(<< Alt(<< Lit("todo"), Lit("unimplemented") >>), Lit("!(") >>),
        severity |-> "LOW", category |-> "todo!() and unimplemented!() in production code",
        risk |-> "panics when reached", suggestion |-> "return an explicit error",
        example |-> "todo!()"] >>

\* re.search(config["pattern"], line) when the pattern compiles
RuleMatches(k, line) == Search(CHECK_PATTERNS[k].pattern, line)

Issue(file_path, line_number, line, k) ==
    [file_path |-> file_path, line_number |-> line_number, line_content |-> Strip(line),
     severity |-> CHECK_PATTERNS[k].severity, category |-> CHECK_PATTERNS[k].category,
     risk |-> CHECK_PATTERNS[k].risk, suggestion |-> CHECK_PATTERNS[k].suggestion,
     example |-> CHECK_PATTERNS[k].example]

\* the comment test applied to the line as read, without line.strip()
IsCommentLineUnstripped(line) == StartsWith(line, "//")

\* the two `continue`s of check_rust_file's loop
IsCommentLine(line) == StartsWith(Strip(line), "//")

IsTestMarked(line) == Contains(line, "#[test]") \/ Contains(line, "#test")

RECURSIVE ScanRulesFirstMatch(_, _, _, _, _)
\* the inner loop with a break after the first issue appended
ScanRulesFirstMatch(file_path, line_number, line, k, bad) ==
    IF k > Len(CHECK_PATTERNS) THEN [issues |-> << >>, raised |-> FALSE]
    ELSE IF k \in bad THEN [issues |-> << >>, raised |-> TRUE]
    ELSE IF RuleMatches(k, line)
         THEN [issues |-> << Issue(file_path, line_number, line, k) >>, raised |-> FALSE]
         ELSE ScanRulesFirstMatch(file_path, line_number, line, k + 1, bad)

RECURSIVE ScanRules(_, _, _, _, _)
\* the inner loop over CHECK_PATTERNS.items() from the k-th rule on, for one
\* line: the issues appended, and whether re.search raised re.error on a
\* pattern that does not compile (`bad` holds those rules)
ScanRules(file_path, line_number, line, k, bad) ==
    IF k > Len(CHECK_PATTERNS) THEN [issues |-> << >>, raised |-> FALSE]
    ELSE IF k \in bad THEN [issues |-> << >>, raised |-> TRUE]
    ELSE LET rest == ScanRules(file_path, line_number, line, k + 1, bad)
         IN  [issues |-> (IF RuleMatches(k, line)
                          THEN << Issue(file_path, line_number, line, k) >>
                          ELSE << >>) \o rest.issues,
              raised |-> rest.raised]

RECURSIVE ScanLines(_, _, _, _)
\* the loop over enumerate(lines, 1) from line_number on; `searched` counts the
\* lines that reached the inner loop
ScanLines(file_path, lines, line_number, bad) ==
    IF line_number > Len(lines) THEN [issues |-> << >>, raised |-> FALSE, searched |-> 0]
    ELSE IF IsCommentLine(lines[line_number]) \/ IsTestMarked(lines[line_number])
         THEN ScanLines(file_path, lines, line_number + 1, bad)
         ELSE LET here == ScanRules(file_path, line_number, lines[line_number], 1, bad)
              IN  IF here.raised
                  THEN [issues |-> here.issues, raised |-> TRUE, searched |-> 1]
                  ELSE LET rest == ScanLines(file_path, lines, line_number + 1, bad)
                       IN  [issues |-> here.issues \o rest.issues, raised |-> rest.raised,
                            searched |-> 1 + rest.searched]

\* check_rust_file: a file that cannot be read gives no issues
check_rust_file(file, bad) ==
    IF ~ file.readable THEN [issues |-> << >>, raised |-> FALSE, searched |-> 0]
    ELSE ScanLines(file.path, file.lines, 1, bad)

RECURSIVE SelectSeverity(_, _)
\* issues_by_severity[severity]: the issues of that severity, in input order
SelectSeverity(issues, severity) ==
    IF issues = << >> THEN << >>
    ELSE (IF Head(issues).severity = severity THEN << Head(issues) >> ELSE << >>)
         \o SelectSeverity(Tail(issues), severity)

RECURSIVE SelectFile(_, _)
\* issues_by_file[file_path]
SelectFile(issues, file_path) ==
    IF issues = << >> THEN << >>
    ELSE (IF Head(issues).file_path = file_path THEN << Head(issues) >> ELSE << >>)
         \o SelectFile(Tail(issues), file_path)

RECURSIVE FirstSeen(_, _)
\* the keys of issues_by_file, in insertion order
FirstSeen(issues, seen) ==
    IF issues = << >> THEN << >>
    ELSE IF Head(issues).file_path \in seen THEN FirstSeen(Tail(issues), seen)
         ELSE << Head(issues).file_path >>
              \o FirstSeen(Tail(issues), seen \cup {Head(issues).file_path})

RECURSIVE Sorted(_)
\* sorted() of a set of str
Sorted(S) ==
    IF S = {} THEN << >>
    ELSE LET m == CHOOSE x \in S : \A y \in S : y = x \/ StrLess(x, y)
         IN  << m >> \o Sorted(S \ {m})

\* the files of one severity section as the loop lists them, unsorted
FileOrderUnsorted(severity_issues) == FirstSeen(severity_issues, {})

\* `for file_path, file_issues in sorted(issues_by_file.items())`
FileOrder(severity_issues) ==
    Sorted({ FirstSeen(severity_issues, {})[k] : k \in 1..Len(FirstSeen(severity_issues, {})) })

\* the lines format_report appends for one issue
IssueBlock(issue) ==
    [kind |-> "issue", line_number |-> issue.line_number, line_content |-> issue.line_content,
     category |-> issue.category, risk |-> issue.risk, suggestion |-> issue.suggestion,
     example |-> issue.example]

IssueBlocks(issues) == [k \in 1..Len(issues) |-> IssueBlock(issues[k])]

RECURSIVE FileSections(_, _, _)
FileSections(severity_issues, order, k) ==
    IF k > Len(order) THEN << >>
    ELSE << [kind |-> "file", file_path |-> order[k]] >>
         \o IssueBlocks(SelectFile(severity_issues, order[k]))
         \o FileSections(severity_issues, order, k + 1)

\* one pass of `for severity in [HIGH, MEDIUM, LOW]`
SeveritySection(issues, severity) ==
    LET severity_issues == SelectSeverity(issues, severity)
    IN  IF severity_issues = << >> THEN << >>
        ELSE << [kind |-> "severity", severity |-> severity] >>
             \o FileSections(severity_issues, FileOrder(severity_issues), 1)

\* format_report: the report as the sequence of its blocks
format_report(issues) ==
    IF issues = << >> THEN << [kind |-> "clean"] >>
    ELSE << [kind |-> "title", total |-> Len(issues)] >>
         \o SeveritySection(issues, "HIGH")
         \o SeveritySection(issues, "MEDIUM")
         \o SeveritySection(issues, "LOW")
         \o << [kind |-> "summary",
                high   |-> Len(SelectSeverity(issues, "HIGH")),
                medium |-> Len(SelectSeverity(issues, "MEDIUM")),
                low    |-> Len(SelectSeverity(issues, "LOW"))] >>

\* file_path.parts
Parts(path) == SplitFrom(path, "/", 1, 1)

should_skip_file(path) == \E k \in 1..Len(Parts(path)) : Parts(path)[k] = "target"

EndsWith(s, suffix) ==
    Len(suffix) <= Len(s) /\ SubSeq(s, Len(s) - Len(suffix) + 1, Len(s)) = suffix

RECURSIVE find_rust_files(_)
\* root_path.rglob("*.rs") without the skipped files, in the order the tree gives
find_rust_files(files) ==
    IF files = << >> THEN << >>
    ELSE (IF EndsWith(Head(files).path, ".rs") /\ ~ should_skip_file(Head(files).path)
          THEN << Head(files) >> ELSE << >>)
         \o find_rust_files(Tail(files))

\* the exit status any issue decides, instead of the HIGH ones
ExitCodeAnyIssue(issues) == IF issues # << >> THEN 1 ELSE 0

\* main, lines 403-412: 1 when a HIGH issue exists, else 0
ExitCode(issues) == IF SelectSeverity(issues, "HIGH") # << >> THEN 1 ELSE 0

(***************************************************************************)
(* The auditor's run: main() of check_error_tolerance.py.  The tree under  *)
(* the root path is the environment's choice.                              *)
(***************************************************************************)
MaxFiles == 2

\* the files a scanned tree is made of
TreeFiles ==
    { [path |-> "src/lib.rs", readable |-> TRUE,
       lines |-> << "let user_id = get_user_id().unwrap();\n" >>],
      [path |-> "src/a.rs", readable |-> TRUE,
       lines |-> << "let v = items[0].ok();\n", "todo!()\n" >>],
      [path |-> "src/ok.rs", readable |-> TRUE,
       lines |-> << "let n = a + b;\n", "// x.unwrap();\n" >>],
      [path |-> "target/debug/gen.rs", readable |-> TRUE,
       lines |-> << "let user_id = get_user_id().unwrap();\n" >>],
      [path |-> "src/locked.rs", readable |-> FALSE,
       lines |-> << "let user_id = get_user_id().unwrap();\n" >>],
      [path |-> "notes.md", readable |-> TRUE,
       lines |-> << "x.unwrap()\n" >>],
      [path |-> "tests/t.rs", readable |-> TRUE,
       lines |-> << "#[test]\n", "fn t() { assert!(ok); x.unwrap(); }\n" >>] }

RECURSIVE Arrangements(_, _)
\* the sequences of up to n elements of S
Arrangements(S, n) ==
    IF n = 0 THEN { << >> }
    ELSE LET shorter == Arrangements(S, n - 1)
         IN  shorter \cup { Append(q, x) : q \in { r \in shorter : Len(r) = n - 1 },
                                            x \in S }

Distinct(q) == \A i, j \in 1..Len(q) : i # j => q[i] # q[j]

Trees ==
    { NoFs } \cup { [exists |-> TRUE, files |-> q] :
                      q \in { r \in Arrangements(TreeFiles, MaxFiles) : Distinct(r) } }

\* the variables of the other script, which a run of this one leaves alone
AuditorIdle == proc = NotRun /\ results = << >>

InitAuditor ==
    /\ pc = "start"
    /\ argv = [path |-> "."]
    /\ fs \in Trees
    /\ ret = << >>
    /\ idx = 0
    /\ all_issues = << >>
    /\ report = << >>
    /\ exit_status = << >>
    /\ AuditorIdle

\* the program as it is: every pattern of CHECK_PATTERNS compiles
InitAudit == InitAuditor /\ catalog = {}

\* the program with one pattern of CHECK_PATTERNS replaced by one that does not compile
InitCatalog == InitAuditor /\ catalog \in { {k} : k \in 1..Len(CHECK_PATTERNS) }

\* main, lines 377-379: a root path that does not exist
CheckPath ==
    /\ pc = "start"
    /\ IF fs.exists
       THEN pc' = "find" /\ exit_status' = exit_status
       ELSE pc' = "exit" /\ exit_status' = << 1 >>
    /\ UNCHANGED <<argv, ret, proc, results, fs, catalog, idx, all_issues, report>>

\* main, lines 384-391: find_rust_files, sys.exit(0) when there is none
FindFiles ==
    /\ pc = "find"
    /\ IF find_rust_files(fs.files) = << >>
       THEN pc' = "exit" /\ exit_status' = << 0 >> /\ idx' = idx
       ELSE pc' = "scan" /\ exit_status' = exit_status /\ idx' = 1
    /\ UNCHANGED <<argv, ret, proc, results, fs, catalog, all_issues, report>>

\* main, lines 394-396: one pass of the loop over rust_files; an re.error that
\* check_rust_file lets through ends the process with a traceback and status 1
ScanFile ==
    /\ pc = "scan"
    /\ idx <= Len(find_rust_files(fs.files))
    /\ LET r == check_rust_file(find_rust_files(fs.files)[idx], catalog)
       IN  /\ ret' = r
           /\ IF r.raised
              THEN pc' = "crashed" /\ exit_status' = << 1 >>
                   /\ UNCHANGED <<idx, all_issues>>
              ELSE pc' = pc /\ exit_status' = exit_status
                   /\ idx' = idx + 1
                   /\ all_issues' = all_issues \o r.issues
    /\ UNCHANGED <<argv, proc, results, fs, catalog, report>>

\* main, lines 399-412: the report, then the exit status
Report ==
    /\ pc = "scan"
    /\ idx > Len(find_rust_files(fs.files))
    /\ report' = format_report(all_issues)
    /\ exit_status' = << ExitCode(all_issues) >>
    /\ pc' = "exit"
    /\ UNCHANGED <<argv, ret, proc, results, fs, catalog, idx, all_issues>>

NextAuditor ==
    \/ CheckPath
    \/ FindFiles
    \/ ScanFile
    \/ Report

SpecAudit == InitAudit /\ [][NextAuditor]_vars

SpecCatalog == InitCatalog /\ [][NextAuditor]_vars

HasHigh(issues) == \E k \in 1..Len(issues) : issues[k].severity = "HIGH"

\* C4 as stated: whenever the auditor has ended, its exit status is 1 if and only
\* if a HIGH Finding was produced, and 0 otherwise, for any root path.
C4_ExitOneIffHigh ==
    pc = "exit" => /\ exit_status = << 1 >> <=> HasHigh(all_issues)
                   /\ ~ HasHigh(all_issues) => exit_status = << 0 >>

\* C4, amended: for every run whose root path exists, the exit status is 1 if and
\* only if a HIGH Finding was produced and 0 otherwise; a root path that does not
\* exist ends the run with exit status 1 and no Finding.
C4_ExitOneIffHighUnderExistingRoot ==
    pc = "exit" =>
        IF fs.exists
        THEN /\ exit_status = << 1 >> <=> HasHigh(all_issues)
             /\ ~ HasHigh(all_issues) => exit_status = << 0 >>
        ELSE exit_status = << 1 >> /\ all_issues = << >>

\* a run that found only MEDIUM and LOW findings has ended with status 0
C4_Witness ==
    /\ pc = "exit"
    /\ fs.exists
    /\ all_issues # << >>
    /\ ~ HasHigh(all_issues)
    /\ exit_status = << 0 >>

MaxFileLines == 2

\* the lines a source file is made of
SourceLines ==
    { "let user_id = get_user_id().unwrap();\n",
      "// let user_id = get_user_id().unwrap();\n",
      "    let port: u16 = env::var(\"PORT\").unwrap().parse().unwrap();\n",
      "#[test]\n",
      "fn t() { assert!(ok); x.unwrap(); }\n",
      "let v = items[0].ok();\n",
      "todo!()\n",
      "let n = a + b;\n",
      "let _ = commit(); // #test\n",
      "let c = load().expect(\"failed\").unwrap_or_default();\n",
      "v.unwrap()test;\n",
      "\t// x.unwrap_or(0);\n" }

InitScan ==
    /\ pc = "call"
    /\ argv \in [file : [path : {"src/lib.rs"}, readable : BOOLEAN,
                         lines : Arrangements(SourceLines, MaxFileLines)]]
    /\ ret = << >>
    /\ fs = NoFs
    /\ catalog = {}
    /\ idx = 0
    /\ all_issues = << >>
    /\ report = << >>
    /\ exit_status = << >>
    /\ AuditorIdle

ScanCall ==
    /\ pc = "call"
    /\ ret' = check_rust_file(argv.file, catalog)
    /\ pc' = "return"
    /\ UNCHANGED <<argv, proc, results, fs, catalog, idx, all_issues, report, exit_status>>

NextScan == ScanCall

SpecScan == InitScan /\ [][NextScan]_vars

Rules == 1..Len(CHECK_PATTERNS)

Eligible(line) == ~ IsCommentLine(line) /\ ~ IsTestMarked(line)

\* the findings of rule k on line n among `issues`
FindingsOf(issues, n, k) ==
    { i \in 1..Len(issues) : /\ issues[i].line_number = n
                             /\ issues[i].category = CHECK_PATTERNS[k].category }

RuleOf(issue) == CHOOSE k \in Rules : CHECK_PATTERNS[k].category = issue.category

\* C7: check_rust_file returns, for every eligible line and every rule, exactly one
\* Finding when the rule matches the line and none when it does not (K matching
\* rules give K Findings), ordered by line number and, within a line, by the
\* rules' declaration order.
C7_EveryRuleOnEveryLine ==
    (pc = "return" /\ argv.file.readable) =>
        LET lines  == argv.file.lines
            issues == ret.issues
        IN  /\ \A n \in 1..Len(lines), k \in Rules :
                  Cardinality(FindingsOf(issues, n, k))
                      = IF Eligible(lines[n]) /\ RuleMatches(k, lines[n]) THEN 1 ELSE 0
            /\ \A i \in 1..Len(issues) :
                  /\ issues[i].line_number \in 1..Len(lines)
                  /\ \E k \in Rules : issues[i].category = CHECK_PATTERNS[k].category
            /\ \A i, j \in 1..Len(issues) :
                  i < j => \/ issues[i].line_number < issues[j].line_number
                           \/ /\ issues[i].line_number = issues[j].line_number
                              /\ RuleOf(issues[i]) < RuleOf(issues[j])

\* a line that two rules match has given two Findings
C7_Witness ==
    /\ pc = "return"
    /\ \E n \in 1..Len(argv.file.lines) : \E j, k \in Rules :
          /\ j < k
          /\ FindingsOf(ret.issues, n, j) # {}
          /\ FindingsOf(ret.issues, n, k) # {}

RECURSIVE CountChar(_, _)
CountChar(s, c) ==
    IF s = "" THEN 0
    ELSE (IF CharAt(s, 1) = c THEN 1 ELSE 0) + CountChar(SubSeq(s, 2, Len(s)), c)

RECURSIVE Braces(_, _, _, _)
\* the number of c in lines[a..m]
Braces(lines, a, m, c) ==
    IF m < a THEN 0 ELSE Braces(lines, a, m - 1, c) + CountChar(lines[m], c)

\* a line that carries a test-only annotation
IsTestAnnotation(line) ==
    StartsWith(Strip(line), "#[test]") \/ StartsWith(Strip(line), "#[cfg(test)]")

\* the last line of the item the annotation on line a marks: where the braces
\* opened after the annotation close again (the annotation line alone when no
\* braced item follows it)
ItemEnd(lines, a) ==
    LET closed == { m \in a..Len(lines) : /\ Braces(lines, a, m, "{") > 0
                                           /\ Braces(lines, a, m, "{") = Braces(lines, a, m, "}") }
    IN  IF closed = {} THEN a ELSE SetMin(closed)

InTestContext(lines, n) ==
    \E a \in 1..n : IsTestAnnotation(lines[a]) /\ n <= ItemEnd(lines, a)

\* C8: no Finding lies on a line inside a test-only annotation context (the
\* annotation line and the lines of the item it marks).
C8_NoFindingInTestContext ==
    pc = "return" =>
        \A i \in 1..Len(ret.issues) :
            ~ InTestContext(argv.file.lines, ret.issues[i].line_number)

\* the positions of the line's characters that are not whitespace
NonWhite(line) == { p \in 1..Len(line) : CharAt(line, p) \notin WhiteSpace }

\* a line whose first non-whitespace characters are the comment marker
PureComment(line) ==
    /\ NonWhite(line) # {}
    /\ LET p == SetMin(NonWhite(line))
       IN  p + 1 <= Len(line) /\ SubSeq(line, p, p + 1) = "//"

\* the rules whose pattern occurs in the line's text
RulesIn(line) == { k \in Rules : RuleMatches(k, line) }

\* C11: a pure-comment line (first non-whitespace characters "//") never yields
\* a Finding, whichever rule patterns its text contains and wherever it stands
\* in the file.
C11_CommentLineNeverFlagged ==
    pc = "return" =>
        \A n \in 1..Len(argv.file.lines) :
            PureComment(argv.file.lines[n]) =>
                \A i \in 1..Len(ret.issues) : ret.issues[i].line_number # n

\* an indented comment line whose text holds a rule's pattern stands second in
\* a scanned file, after a line that gave a Finding, and gave none itself
C11_Witness ==
    /\ pc = "return"
    /\ argv.file.readable
    /\ Len(argv.file.lines) = 2
    /\ PureComment(argv.file.lines[2])
    /\ CharAt(argv.file.lines[2], 1) \in WhiteSpace
    /\ RulesIn(argv.file.lines[2]) # {}
    /\ \E i \in 1..Len(ret.issues) : ret.issues[i].line_number = 1
    /\ \A i \in 1..Len(ret.issues) : ret.issues[i].line_number # 2

(***************************************************************************)
(* format_report as a function of any list of issues.                      *)
(***************************************************************************)
MaxIssues == 3

IssuePool ==
    { Issue(path, 1, "x.unwrap();\n", 1) : path \in {"src/b.rs", "src/a.rs", "src/a/c.rs"} }
    \cup { Issue("src/a.rs", 2, "y.unwrap_or_default();\n", 2) }
    \cup { Issue(path, 1, "r.ok();\n", 8) : path \in {"src/b.rs", "src/a.rs"} }
    \cup { Issue("src/a.rs", 3, "todo!()\n", 11) }

InitReport ==
    /\ pc = "call"
    /\ argv = [path |-> "."]
    /\ all_issues \in Arrangements(IssuePool, MaxIssues)
    /\ ret = << >>
    /\ fs = NoFs
    /\ catalog = {}
    /\ idx = 0
    /\ report = << >>
    /\ exit_status = << >>
    /\ AuditorIdle

ReportCall ==
    /\ pc = "call"
    /\ report' = format_report(all_issues)
    /\ pc' = "return"
    /\ UNCHANGED <<argv, ret, proc, results, fs, catalog, idx, all_issues, exit_status>>

NextReport == ReportCall

SpecReport == InitReport /\ [][NextReport]_vars

SeverityRank(severity) ==
    CASE severity = "HIGH" -> 1 [] severity = "MEDIUM" -> 2 [] severity = "LOW" -> 3

IssuePositions(rep) == { i \in 1..Len(rep) : rep[i].kind = "issue" }

\* the heading of the given kind an entry of the report stands under
HeadingOf(rep, i, kind) == rep[SetMax({ j \in 1..i : rep[j].kind = kind })]

SeverityOfEntry(rep, i) == HeadingOf(rep, i, "severity").severity

FileOfEntry(rep, i) == HeadingOf(rep, i, "file").file_path

\* what an entry of the report shows of a Finding
Shown(b) == << b.line_number, b.line_content, b.category >>

RECURSIVE EntriesUnder(_, _, _, _)
\* the entries under one severity and file, in report order
EntriesUnder(rep, i, severity, file_path) ==
    IF i > Len(rep) THEN << >>
    ELSE (IF /\ rep[i].kind = "issue"
             /\ SeverityOfEntry(rep, i) = severity
             /\ FileOfEntry(rep, i) = file_path
          THEN << Shown(rep[i]) >> ELSE << >>)
         \o EntriesUnder(rep, i + 1, severity, file_path)

RECURSIVE FindingsUnder(_, _, _)
\* the input Findings of one severity and file, in input order
FindingsUnder(issues, severity, file_path) ==
    IF issues = << >> THEN << >>
    ELSE (IF Head(issues).severity = severity /\ Head(issues).file_path = file_path
          THEN << Shown(Head(issues)) >> ELSE << >>)
         \o FindingsUnder(Tail(issues), severity, file_path)

PoolPaths == { i.file_path : i \in IssuePool }

\* severity groups in the order HIGH, MEDIUM, LOW; within one, files ascending
GroupedAndSorted(rep) ==
    \A i, j \in IssuePositions(rep) :
        i < j =>
            \/ SeverityRank(SeverityOfEntry(rep, i)) < SeverityRank(SeverityOfEntry(rep, j))
            \/ /\ SeverityOfEntry(rep, i) = SeverityOfEntry(rep, j)
               /\ \/ FileOfEntry(rep, i) = FileOfEntry(rep, j)
                  \/ StrLess(FileOfEntry(rep, i), FileOfEntry(rep, j))

\* every Finding once, under its severity and file, in input order within a file
EachOnceInInputOrder(rep, issues) ==
    /\ Cardinality(IssuePositions(rep)) = Len(issues)
    /\ \A severity \in Severity, file_path \in PoolPaths :
          EntriesUnder(rep, 1, severity, file_path) = FindingsUnder(issues, severity, file_path)

CountOf(issues, severity) == Cardinality({ i \in 1..Len(issues) : issues[i].severity = severity })

\* the report holds one summary table, with the per-severity counts of the input
SummaryCounts(rep, issues) ==
    /\ Cardinality({ i \in 1..Len(rep) : rep[i].kind = "summary" }) = 1
    /\ \A i \in 1..Len(rep) :
          rep[i].kind = "summary" =>
              /\ rep[i].high = CountOf(issues, "HIGH")
              /\ rep[i].medium = CountOf(issues, "MEDIUM")
              /\ rep[i].low = CountOf(issues, "LOW")

\* C10 as stated: for any input list the report groups the Findings by severity
\* (HIGH, MEDIUM, LOW), then by file path ascending, keeps the input order within
\* a file, renders every Finding once, and its summary table counts them per severity.
C10_GroupedReportWithSummary ==
    pc = "return" =>
        /\ GroupedAndSorted(report)
        /\ EachOnceInInputOrder(report, all_issues)
        /\ SummaryCounts(report, all_issues)

\* C10, amended: the same for any non-empty input list; for the empty list the
\* report is the single no-issues line, without a summary table.
C10_GroupedReportWithSummaryIfAny ==
    pc = "return" =>
        IF all_issues = << >>
        THEN report = << [kind |-> "clean"] >>
        ELSE /\ GroupedAndSorted(report)
             /\ EachOnceInInputOrder(report, all_issues)
             /\ SummaryCounts(report, all_issues)

\* two Findings of one severity came in descending file order, and a later
\* Finding of a higher severity than an earlier one
C10_Witness ==
    /\ pc = "return"
    /\ \E i, j \in 1..Len(all_issues) :
          /\ i < j
          /\ all_issues[i].severity = all_issues[j].severity
          /\ StrLess(all_issues[j].file_path, all_issues[i].file_path)
    /\ \E i, j \in 1..Len(all_issues) :
          /\ i < j
          /\ SeverityRank(all_issues[j].severity) < SeverityRank(all_issues[i].severity)
    /\ GroupedAndSorted(report)

=============================================================================
